---- MODULE Spec2Model ----
(***************************************************************************)
(* Model of the ultrasonic sonar driver (sonar.c, src/unnamed/part_000):   *)
(* the measurement task vSonarTask, the timer interrupt handler            *)
(* TIM3_IRQHandler, the binary semaphore xResponseSemphr between them and  *)
(* the accessor iSonarMeasureDistCm.                                       *)
(*                                                                         *)
(* The task is modelled statement by statement (pc), the interrupt handler *)
(* as one atomic action that may preempt the task between any two of its   *)
(* statements.  The timer peripheral is the environment: it may raise its  *)
(* update and capture/compare flags at any time while the counter runs.    *)
(* A raised flag is served by the handler at some later point (the kernel  *)
(* masks interrupts in its critical sections), or is cleared unserved when *)
(* the task reprograms the timer.  vSendTriggerPulse and vSetEchoMode      *)
(* touch only timer registers, so each is one step of the task; a handler  *)
(* run inside one of them has the effect of a run just before it.          *)
(*                                                                         *)
(* captured, refPair, refState, refDist, hist, discarded, prevFailed and    *)
(* measured are history variables: they record what happened and are read  *)
(* by no statement of the program.                                         *)
(***************************************************************************)
EXTENDS Integers, FiniteSets, Sequences

\* ---------------------------------------------------------------- constants

\* #define SONAR_BAD_VALUE (-1)
SONAR_BAD_VALUE == -1

\* #define TIM_ECHO_PERIOD 0xffff; the handler writes the literal 0xFFFF
TIM_ECHO_PERIOD == 65535

\* #define TIM_ECHO_TC_US (2.5), kept exact as the fraction 5/2
TIM_ECHO_TC_US_NUM == 5
TIM_ECHO_TC_US_DEN == 2

\* #define CONV_CONST_US_CM 58
CONV_CONST_US_CM == 58

\* #define TRIGGER 0 / ECHO 1, the values of the bool `mode`
TRIGGER == 0
ECHO == 1

\* #define BEGIN 0 / END 1, the values of the bool `capture`
BEGIN == 0
END == 1

\* TIM_GetCapture3 returns any 16-bit counter value; the model draws it from
\* the first NumSamples entries of SampleSeq.  The first seven are the two
\* ends of the range, both concrete scenarios of the specification
\* (100 -> 4740 and 65000 -> 500) and TIM_TRIG_PULSE (1451 / 2), the compare
\* value of the trigger pulse; the others are neighbours of these and
\* values of no special meaning.
NumSamples == 7
SampleSeq == <<0, 65535, 100, 4740, 65000, 500, 725,
               1, 4741, 65534, 1234, 5678>>
Samples == {SampleSeq[i] : i \in 1..NumSamples}

\* TIM_ICInitStructure.TIM_Channel: zero (channel 1) in the zero-initialised
\* static of line 68, channel 3 once line 180 has run
TIM_Channel_1 == "TIM_Channel_1"
TIM_Channel_3 == "TIM_Channel_3"

\* Interrupt sources of the timer (TIM_IT_Update, TIM_IT_CC3)
TIM_IT_Update == "Update"
TIM_IT_CC3 == "CC3"

VARIABLES
    mode,             \* static bool mode
    capture,          \* static bool capture
    value,            \* static int value: echo pulse width in ticks
    value_cm,         \* static int value_cm: the published reading
    IC3Value1,        \* static uint16_t IC3Value1: first edge
    IC3Value2,        \* static uint16_t IC3Value2: second edge
    xResponseSemphr,  \* binary semaphore: 1 available, 0 held
    pc,               \* position of vSonarTask ("ready": not dispatched)
    trigTake,         \* result of this cycle's first xSemaphoreTake
    echoTake,         \* result of this cycle's second xSemaphoreTake
    SR,               \* TIMx->SR: pending interrupt flags
    DIER,             \* TIMx->DIER: enabled interrupt sources
    CEN,              \* TIMx->CR1.CEN: counter enabled (TIM_Cmd)
    ICPolarity,       \* input-capture polarity of channel 3
    ICChannel,        \* TIM_ICInitStructure.TIM_Channel (static, line 68)
    captured,         \* an edge pair was captured since `capture = BEGIN`
    refPair,          \* history: the edge pair whose cycles are compared
    refState,         \* history: "unset", "once" or "again"
    refDist,          \* history: the distance its first cycle published
    initPc,           \* position of vSonarInit
    hist,             \* history: discarded and prevFailed are recorded
    discarded,        \* history: sources discarded unserved in this cycle
    prevFailed,       \* history: a wait of the previous cycle timed out
    measured          \* history: an echo wait has succeeded since vSonarInit

vars == <<mode, capture, value, value_cm, IC3Value1, IC3Value2,
          xResponseSemphr, pc, trigTake, echoTake, SR, DIER, CEN,
          ICPolarity, ICChannel, captured, refPair, refState, refDist,
          initPc, hist, discarded, prevFailed, measured>>

isrVars == <<mode, capture, value, IC3Value1, IC3Value2, captured>>
timVars == <<SR, DIER, CEN, ICPolarity, ICChannel>>
idemVars == <<refPair, refState, refDist>>
histVars == <<discarded, prevFailed, measured>>
auxVars == <<initPc, hist, histVars, idemVars>>

\* ------------------------------------------------------------ pure helpers

\* C integer division, which truncates toward zero (\div floors)
TruncDiv(n, d) == IF n >= 0 THEN n \div d ELSE -((-n) \div d)

\* The width without the -1 of line 226 (a plain difference of the edges)
PulseWidth_PlainDifference(first, second) ==
    IF second > first
    THEN second - first
    ELSE ((TIM_ECHO_PERIOD - first) + second) - 1

\* lines 225-230: the pulse width the handler stores on the second edge.
\* Both operands are uint16_t promoted to int, so nothing wraps.
PulseWidth(first, second) ==
    IF second > first
    THEN (second - first) - 1
    ELSE ((TIM_ECHO_PERIOD - first) + second) - 1

\* The conversion with the tick duration held in an integer (2.5 -> 2)
ConvertToCm_IntegerTick(ticks) ==
    TruncDiv(ticks * 2, CONV_CONST_US_CM)

\* The conversion rounding toward minus infinity instead of toward zero
ConvertToCm_Floor(ticks) ==
    (ticks * TIM_ECHO_TC_US_NUM) \div (TIM_ECHO_TC_US_DEN * CONV_CONST_US_CM)

\* line 272: value * TIM_ECHO_TC_US / CONV_CONST_US_CM, evaluated in double
\* and converted to int (truncation toward zero).  value * 2.5 is exact and
\* a quotient that is not an integer is at least 1/116 away from one, so the
\* result is the truncated rational quotient value*5 / (2*58).
ConvertToCm(ticks) ==
    TruncDiv(ticks * TIM_ECHO_TC_US_NUM, TIM_ECHO_TC_US_DEN * CONV_CONST_US_CM)

\* xSemaphoreGiveFromISR on a binary semaphore: at most one permit
GiveFromISR(s) == 1

\* xSemaphoreTake with a finite timeout returns pdTRUE when a permit is there
TakeSucceeds(s) == s = 1

\* A wait with portMAX_DELAY in place of the timeout never returns pdFALSE
TakeTimesOut_Never(s) == FALSE

\* ... and pdFALSE once the timeout has elapsed with no permit
TakeTimesOut(s) == s = 0

\* ------------------------------------------------------------------- Init

\* The state when vSonarInit has returned: statics are zero-initialised, the
\* semaphore was created and taken (lines 107-110), the task was created and
\* has not run yet, the timer is still in its reset state.
InitCore ==
    /\ mode = TRIGGER
    /\ capture = BEGIN
    /\ value = 0
    /\ value_cm = 0
    /\ IC3Value1 = 0
    /\ IC3Value2 = 0
    /\ xResponseSemphr = 0
    /\ trigTake = "none"
    /\ echoTake = "none"
    /\ SR = {}
    /\ DIER = {}
    /\ CEN = FALSE
    /\ ICPolarity = "None"
    /\ ICChannel = TIM_Channel_1
    /\ captured = FALSE
    /\ refState = "unset"
    /\ refDist = 0
    /\ discarded = {}
    /\ prevFailed = FALSE
    /\ measured = FALSE

\* No reference pair is followed: the history variables never change
NoPair == <<>>

Init ==
    /\ InitCore
    /\ pc = "init"
    /\ refPair = NoPair
    /\ initPc = "done"
    /\ hist = FALSE

\* ------------------------------------------------------- timer peripheral

\* The running counter reaches its period (or is re-initialised): UIF is set
HwUpdateEvent ==
    /\ CEN
    /\ TIM_IT_Update \notin SR
    /\ SR' = SR \cup {TIM_IT_Update}
    /\ UNCHANGED <<auxVars, isrVars, value_cm, xResponseSemphr, pc,
                   trigTake, echoTake, DIER, CEN, ICPolarity>>
    /\ UNCHANGED ICChannel

\* A compare match (trigger configuration) or a captured edge (echo
\* configuration) on channel 3: CC3IF is set
HwCaptureCompareEvent ==
    /\ CEN
    /\ TIM_IT_CC3 \notin SR
    /\ SR' = SR \cup {TIM_IT_CC3}
    /\ UNCHANGED <<auxVars, isrVars, value_cm, xResponseSemphr, pc,
                   trigTake, echoTake, DIER, CEN, ICPolarity>>
    /\ UNCHANGED ICChannel

\* ------------------------------------------------------ interrupt handler

\* TIM_GetITStatus(TIMx, it): the flag is set and the source is enabled
TIM_GetITStatus(it) == it \in SR /\ it \in DIER

\* The update branch also putting the capture sub-state back to BEGIN
IRQ_Update_ResetsCapture ==
    /\ TIM_GetITStatus(TIM_IT_Update)
    /\ IF mode = TRIGGER
       THEN /\ mode' = ECHO
            /\ xResponseSemphr' = GiveFromISR(xResponseSemphr)
            /\ capture' = BEGIN
            /\ UNCHANGED discarded
       ELSE /\ UNCHANGED <<mode, xResponseSemphr, capture>>
            /\ discarded' = IF hist THEN discarded \cup {TIM_IT_Update}
                                    ELSE discarded
    /\ SR' = SR \ {TIM_IT_Update}
    /\ UNCHANGED <<initPc, hist, prevFailed, measured, idemVars>>
    /\ UNCHANGED <<value, IC3Value1,
                   IC3Value2, captured, value_cm, pc, trigTake, echoTake,
                   DIER, CEN, ICPolarity>>
    /\ UNCHANGED ICChannel

\* lines 198-208: the update branch
IRQ_Update ==
    /\ TIM_GetITStatus(TIM_IT_Update)
    /\ IF mode = TRIGGER
       THEN /\ mode' = ECHO
            /\ xResponseSemphr' = GiveFromISR(xResponseSemphr)
            /\ UNCHANGED discarded
       ELSE /\ UNCHANGED <<mode, xResponseSemphr>>
            /\ discarded' = IF hist THEN discarded \cup {TIM_IT_Update}
                                    ELSE discarded
    /\ SR' = SR \ {TIM_IT_Update}
    /\ UNCHANGED <<initPc, hist, prevFailed, measured, idemVars>>
    /\ UNCHANGED <<capture, value,
                   IC3Value1, IC3Value2, captured, value_cm, pc, trigTake,
                   echoTake, DIER, CEN, ICPolarity>>
    /\ UNCHANGED ICChannel

\* lines 214-220: first edge of the echo pulse; c3 is TIM_GetCapture3.
\* TIM_ICInit configures the channel named in TIM_ICInitStructure: channel 3
\* gets the falling polarity only if vSetEchoMode has filled the structure;
\* before that the call configures channel 1 and leaves channel 3 alone.
IRQ_CaptureBegin(c3) ==
    /\ ~TIM_GetITStatus(TIM_IT_Update)
    /\ TIM_GetITStatus(TIM_IT_CC3)
    /\ mode = ECHO
    /\ capture = BEGIN
    /\ IC3Value1' = c3
    /\ ICPolarity' = IF ICChannel = TIM_Channel_3 THEN "Falling"
                                                  ELSE ICPolarity
    /\ capture' = END
    /\ SR' = SR \ {TIM_IT_CC3}
    /\ UNCHANGED <<auxVars, mode, value, IC3Value2, captured, value_cm,
                   xResponseSemphr, pc, trigTake, echoTake, DIER, CEN>>
    /\ UNCHANGED ICChannel

\* The second-edge step putting the capture sub-state back to BEGIN itself
IRQ_CaptureEnd_Rearms(c3) ==
    /\ ~TIM_GetITStatus(TIM_IT_Update)
    /\ TIM_GetITStatus(TIM_IT_CC3)
    /\ mode = ECHO
    /\ capture = END
    /\ IC3Value2' = c3
    /\ value' = PulseWidth(IC3Value1, c3)
    /\ xResponseSemphr' = GiveFromISR(xResponseSemphr)
    /\ captured' = TRUE
    /\ capture' = BEGIN
    /\ SR' = SR \ {TIM_IT_CC3}
    /\ UNCHANGED <<auxVars, mode, IC3Value1, value_cm, pc, trigTake,
                   echoTake, DIER, CEN, ICPolarity>>
    /\ UNCHANGED ICChannel

\* lines 222-233: second edge of the echo pulse; c3 is TIM_GetCapture3
IRQ_CaptureEnd(c3) ==
    /\ ~TIM_GetITStatus(TIM_IT_Update)
    /\ TIM_GetITStatus(TIM_IT_CC3)
    /\ mode = ECHO
    /\ capture = END
    /\ IC3Value2' = c3
    /\ value' = PulseWidth(IC3Value1, c3)
    /\ xResponseSemphr' = GiveFromISR(xResponseSemphr)
    /\ captured' = TRUE
    /\ SR' = SR \ {TIM_IT_CC3}
    /\ UNCHANGED <<auxVars, mode, capture, IC3Value1, value_cm, pc, trigTake,
                   echoTake, DIER, CEN, ICPolarity>>
    /\ UNCHANGED ICChannel

\* The capture/compare branch releasing the semaphore whatever the mode
IRQ_CaptureDiscard_Gives ==
    /\ ~TIM_GetITStatus(TIM_IT_Update)
    /\ TIM_GetITStatus(TIM_IT_CC3)
    /\ mode # ECHO
    /\ SR' = SR \ {TIM_IT_CC3}
    /\ xResponseSemphr' = GiveFromISR(xResponseSemphr)
    /\ discarded' = IF hist THEN discarded \cup {TIM_IT_CC3} ELSE discarded
    /\ UNCHANGED <<initPc, hist, prevFailed, measured, idemVars>>
    /\ UNCHANGED <<isrVars, value_cm,
                   pc, trigTake, echoTake, DIER, CEN, ICPolarity>>
    /\ UNCHANGED ICChannel

\* lines 210-212, 235-236: a capture/compare interrupt outside echo mode
IRQ_CaptureDiscard ==
    /\ ~TIM_GetITStatus(TIM_IT_Update)
    /\ TIM_GetITStatus(TIM_IT_CC3)
    /\ mode # ECHO
    /\ SR' = SR \ {TIM_IT_CC3}
    /\ discarded' = IF hist THEN discarded \cup {TIM_IT_CC3} ELSE discarded
    /\ UNCHANGED <<initPc, hist, prevFailed, measured, idemVars>>
    /\ UNCHANGED <<isrVars, value_cm,
                   xResponseSemphr, pc, trigTake, echoTake, DIER, CEN,
                   ICPolarity>>
    /\ UNCHANGED ICChannel

\* lines 194-239: the whole handler, atomic with respect to the task
TIM3_IRQHandler ==
    \/ IRQ_Update
    \/ \E c3 \in Samples : IRQ_CaptureBegin(c3)
    \/ \E c3 \in Samples : IRQ_CaptureEnd(c3)
    \/ IRQ_CaptureDiscard

\* ------------------------------------------------------- measurement task

\* line 249: value_cm = SONAR_BAD_VALUE, the first statement of the task
Task_Initialize ==
    /\ pc = "init"
    /\ value_cm' = SONAR_BAD_VALUE
    /\ pc' = "set_trigger"
    /\ UNCHANGED <<auxVars, isrVars, xResponseSemphr, trigTake, echoTake,
                   timVars>>

\* line 254: mode = TRIGGER, the first statement of a cycle
Task_SetTrigger ==
    /\ pc = "set_trigger"
    /\ mode' = TRIGGER
    /\ trigTake' = "none"
    /\ echoTake' = "none"
    /\ pc' = "send_trigger"
    /\ discarded' = {}
    /\ prevFailed' = (hist /\ "timeout" \in {trigTake, echoTake})
    /\ UNCHANGED <<initPc, hist, measured, idemVars, capture, value,
                   IC3Value1, IC3Value2, captured, value_cm,
                   xResponseSemphr, timVars>>

\* lines 113-160: vSendTriggerPulse.  TIM_DeInit resets the peripheral
\* (flags, enables, channel configuration), the update flag raised by the
\* time-base initialisation is cleared, both sources are enabled and the
\* counter is started.
vSendTriggerPulse ==
    /\ pc = "send_trigger"
    /\ SR' = {}
    /\ DIER' = {TIM_IT_CC3, TIM_IT_Update}
    /\ ICPolarity' = "None"
    /\ CEN' = TRUE
    /\ pc' = "take1"
    /\ UNCHANGED <<auxVars, isrVars, value_cm, xResponseSemphr, trigTake,
                   echoTake>>
    /\ UNCHANGED ICChannel

\* lines 257-259: wait for the end of the trigger pulse
Task_TakeTrigger ==
    /\ pc = "take1"
    /\ \/ /\ TakeSucceeds(xResponseSemphr)
          /\ xResponseSemphr' = 0
          /\ trigTake' = "ok"
          /\ UNCHANGED value_cm
       \/ /\ TakeTimesOut(xResponseSemphr)
          /\ trigTake' = "timeout"
          /\ value_cm' = SONAR_BAD_VALUE
          /\ UNCHANGED xResponseSemphr
    /\ pc' = "reset_capture"
    /\ UNCHANGED <<auxVars, isrVars, echoTake, timVars>>

\* The task going on to the capture phase without line 262
Task_ResetCapture_Skipped ==
    /\ pc = "reset_capture"
    /\ captured' = FALSE
    /\ pc' = "set_echo"
    /\ UNCHANGED <<auxVars, mode, capture, value, IC3Value1, IC3Value2,
                   value_cm, xResponseSemphr, trigTake, echoTake, timVars>>

\* line 262: capture = BEGIN
Task_ResetCapture ==
    /\ pc = "reset_capture"
    /\ capture' = BEGIN
    /\ captured' = FALSE
    /\ pc' = "set_echo"
    /\ UNCHANGED <<auxVars, mode, value, IC3Value1, IC3Value2, value_cm,
                   xResponseSemphr, trigTake, echoTake, timVars>>

\* lines 162-192: vSetEchoMode.  The counter is stopped, reprogrammed,
\* channel 3 becomes a rising-edge input capture, the counter is started and
\* every status flag is cleared (SR = 0).  The interrupt enables are kept.
vSetEchoMode ==
    /\ pc = "set_echo"
    /\ ICChannel' = TIM_Channel_3
    /\ ICPolarity' = "Rising"
    /\ CEN' = TRUE
    /\ SR' = {}
    /\ pc' = "take2"
    /\ UNCHANGED <<auxVars, isrVars, value_cm, xResponseSemphr, trigTake,
                   echoTake, DIER>>

\* lines 268-270: wait for the end of the echo pulse.  The store of line
\* 270 is overwritten on line 272 with no call in between and value_cm is
\* not volatile: a build may keep the store or drop it as dead.
Task_TakeEcho ==
    /\ pc = "take2"
    /\ \/ /\ TakeSucceeds(xResponseSemphr)
          /\ xResponseSemphr' = 0
          /\ echoTake' = "ok"
          /\ UNCHANGED value_cm
       \/ /\ TakeTimesOut(xResponseSemphr)
          /\ echoTake' = "timeout"
          /\ value_cm' \in {SONAR_BAD_VALUE, value_cm}
          /\ UNCHANGED xResponseSemphr
    /\ measured' = (measured \/ (hist /\ echoTake' = "ok"))
    /\ pc' = "publish"
    /\ UNCHANGED <<initPc, hist, discarded, prevFailed, idemVars, isrVars,
                   trigTake, timVars>>

\* The publish step keeping the larger of the old and the new reading
Task_Publish_PeakHold ==
    /\ pc = "publish"
    /\ value_cm' = IF ConvertToCm(value) > value_cm
                   THEN ConvertToCm(value) ELSE value_cm
    /\ pc' = "delay"
    /\ IF captured /\ <<IC3Value1, IC3Value2>> = refPair
       THEN /\ refState' = IF refState = "unset" THEN "once" ELSE "again"
            /\ refDist' = IF refState = "unset" THEN value_cm' ELSE refDist
       ELSE UNCHANGED <<refState, refDist>>
    /\ UNCHANGED <<initPc, hist, histVars, refPair, isrVars,
                   xResponseSemphr, trigTake, echoTake, timVars>>

\* line 272: value_cm = value * TIM_ECHO_TC_US / CONV_CONST_US_CM
Task_Publish ==
    /\ pc = "publish"
    /\ value_cm' = ConvertToCm(value)
    /\ pc' = "delay"
    /\ IF captured /\ <<IC3Value1, IC3Value2>> = refPair
       THEN /\ refState' = IF refState = "unset" THEN "once" ELSE "again"
            /\ refDist' = IF refState = "unset" THEN value_cm' ELSE refDist
       ELSE UNCHANGED <<refState, refDist>>
    /\ UNCHANGED <<initPc, hist, histVars, refPair, isrVars,
                   xResponseSemphr, trigTake, echoTake, timVars>>

\* line 275: vTaskDelay(100 / portTICK_RATE_MS)
Task_Delay ==
    /\ pc = "delay"
    /\ pc' = "set_trigger"
    /\ UNCHANGED <<auxVars, isrVars, value_cm, xResponseSemphr, trigTake,
                   echoTake, timVars>>

\* lines 246-277: one step of vSonarTask
vSonarTask ==
    \/ Task_Initialize
    \/ Task_SetTrigger
    \/ vSendTriggerPulse
    \/ Task_TakeTrigger
    \/ Task_ResetCapture
    \/ vSetEchoMode
    \/ Task_TakeEcho
    \/ Task_Publish
    \/ Task_Delay

\* lines 102-104: xTaskCreate makes vSonarTask ready to run
Init_CreateTask ==
    /\ initPc = "create_task"
    /\ initPc' = "create_sem"
    /\ UNCHANGED <<hist, histVars, idemVars, isrVars, value_cm,
                   xResponseSemphr, pc, trigTake, echoTake, timVars>>

\* lines 106-107: vSemaphoreCreateBinary creates the semaphore available
Init_CreateSemaphore ==
    /\ initPc = "create_sem"
    /\ xResponseSemphr' = 1
    /\ initPc' = "take_sem"
    /\ UNCHANGED <<hist, histVars, idemVars, isrVars, value_cm, pc, trigTake,
                   echoTake, timVars>>

\* vSonarInit returning without lines 108-110
Init_TakeSemaphore_Omitted ==
    /\ initPc = "take_sem"
    /\ initPc' = "done"
    /\ UNCHANGED <<hist, histVars, idemVars, isrVars, value_cm, pc, trigTake,
                   echoTake, timVars, xResponseSemphr>>

\* lines 108-110: xSemaphoreTake with DEFAULT_TIMEOUT_MS, result ignored:
\* an available semaphore is taken, a held one stays held after the timeout
Init_TakeSemaphore ==
    /\ initPc = "take_sem"
    /\ xResponseSemphr' = 0
    /\ initPc' = "done"
    /\ UNCHANGED <<hist, histVars, idemVars, isrVars, value_cm, pc, trigTake,
                   echoTake, timVars>>

\* lines 82-111: one step of vSonarInit
vSonarInit ==
    \/ Init_CreateTask
    \/ Init_CreateSemaphore
    \/ Init_TakeSemaphore

\* lines 241-244: the accessor returns the reading as it is now
iSonarMeasureDistCm == value_cm

\* ------------------------------------------------------------------- spec

Next ==
    \/ HwUpdateEvent
    \/ HwCaptureCompareEvent
    \/ TIM3_IRQHandler
    \/ vSonarTask

Spec == Init /\ [][Next]_vars

\* The scheduler runs the task whenever it is ready: a timed wait and the
\* delay end after a finite time, and the handler returns.
SpecLive == Init /\ [][Next]_vars /\ WF_vars(vSonarTask)

\* The edge pairs whose cycles are compared with one another
RefPairs == {<<100, 4740>>, <<65000, 500>>}

\* The same program, with the history of one edge pair recorded
InitIdem ==
    /\ InitCore
    /\ pc = "init"
    /\ refPair \in RefPairs
    /\ initPc = "done"
    /\ hist = FALSE

SpecIdem == InitIdem /\ [][Next]_vars

\* The same program, with the discarded interrupts and the failure of the
\* previous cycle recorded
InitHist ==
    /\ InitCore
    /\ pc = "init"
    /\ refPair = NoPair
    /\ initPc = "done"
    /\ hist = TRUE

SpecHist == InitHist /\ [][Next]_vars

\* The caller of vSonarInit is not part of sonar.c.  The specification
\* knows one task and the interrupt handler and no other execution context:
\* vSonarInit is called before the scheduler is started, and the task made
\* ready on line 103 is dispatched once the caller has started it, after
\* vSonarInit has returned.
StartScheduler ==
    /\ initPc = "done"
    /\ pc = "ready"
    /\ pc' = "init"
    /\ UNCHANGED <<auxVars, isrVars, value_cm, xResponseSemphr, trigTake,
                   echoTake, timVars>>

\* The program from the entry of vSonarInit, the task not yet dispatched
InitBoot ==
    /\ InitCore
    /\ pc = "ready"
    /\ refPair = NoPair
    /\ initPc = "create_task"
    /\ hist = FALSE

NextBoot == vSonarInit \/ StartScheduler \/ Next

SpecBoot == InitBoot /\ [][NextBoot]_vars

TypeOK ==
    /\ mode \in {TRIGGER, ECHO}
    /\ capture \in {BEGIN, END}
    /\ value \in -1..65534
    /\ value_cm \in -1..2824
    /\ IC3Value1 \in 0..65535
    /\ IC3Value2 \in 0..65535
    /\ xResponseSemphr \in {0, 1}
    /\ trigTake \in {"none", "ok", "timeout"}
    /\ echoTake \in {"none", "ok", "timeout"}
    /\ SR \subseteq {TIM_IT_Update, TIM_IT_CC3}
    /\ pc \in {"ready", "init", "set_trigger", "send_trigger", "take1",
               "reset_capture", "set_echo", "take2", "publish", "delay"}

\* ----------------------------------------------------------------- claims

\* C1: when the echo-capture wait of a cycle timed out, the reading that the
\* cycle has published (the task is at its delay) is SONAR_BAD_VALUE, so
\* iSonarMeasureDistCm returns -1.
C1_EchoTimeoutPublishesBadValue ==
    (pc = "delay" /\ echoTake = "timeout")
        => iSonarMeasureDistCm = SONAR_BAD_VALUE

\* C2: when the trigger-complete wait of a cycle timed out, the reading the
\* cycle has published is SONAR_BAD_VALUE, and the cycle went on through the
\* capture reset, the capture configuration and the echo wait.
C2_TriggerTimeoutPublishesBadValue ==
    (pc = "delay" /\ trigTake = "timeout")
        => /\ iSonarMeasureDistCm = SONAR_BAD_VALUE
           /\ echoTake \in {"ok", "timeout"}
           /\ ICPolarity \in {"Rising", "Falling"}

\* C3: on the second edge, for secondEdge <= firstEdge, the handler stores
\* width = (65535 - firstEdge) + secondEdge - 1, and that width is >= 0.
C3_WrapWidthNonNegative ==
    [][\A c3 \in Samples :
         (IRQ_CaptureEnd(c3) /\ c3 <= IC3Value1)
            => /\ value' = (65535 - IC3Value1) + c3 - 1
               /\ value' >= 0]_vars

\* C4: on the second edge, for secondEdge > firstEdge, the handler stores
\* width = secondEdge - firstEdge - 1, a value in 0..65534.
C4_NoWrapWidth ==
    [][\A c3 \in Samples :
         (IRQ_CaptureEnd(c3) /\ c3 > IC3Value1)
            => /\ value' = c3 - IC3Value1 - 1
               /\ value' \in 0..65534]_vars

\* C4 witness: the handler has stored the width of the pair 100 -> 4740
C4_Witness ==
    /\ captured
    /\ IC3Value1 = 100
    /\ IC3Value2 = 4740
    /\ value = 4639

\* C5: when the task begins the trigger phase of the cycle after one whose
\* echo-capture wait timed out, the gate is held (no permit is left over).
C5_GateHeldAfterEchoTimeout ==
    [][(pc = "set_trigger" /\ pc' = "send_trigger" /\ echoTake = "timeout")
          => xResponseSemphr = 0]_vars

\* C6: the task never blocks for ever: whatever the interrupt sources do,
\* every cycle that starts reaches its inter-cycle delay, and after the
\* delay the next cycle's trigger phase begins.
C6_TaskNeverBlocks ==
    /\ (pc = "send_trigger") ~> (pc = "delay")
    /\ (pc = "delay") ~> (pc = "send_trigger")

\* C6 witness: a cycle reached its delay although both waits timed out
C6_Witness ==
    /\ pc = "delay"
    /\ trigTake = "timeout"
    /\ echoTake = "timeout"

\* C7: after a successful echo wait the task publishes width * 2.5 / 58
\* truncated toward zero: the integer quotient of width*25 by 580 for a
\* width >= 0, 199 cm for the pair 100 -> 4740 (width 4639) and 44 cm for
\* the pair 65000 -> 500 (width 1034).
C7_PublishedDistance ==
    [][(pc = "publish" /\ pc' = "delay" /\ echoTake = "ok")
          => /\ value >= 0 =>
                  /\ 580 * value_cm' <= 25 * value
                  /\ 25 * value < 580 * (value_cm' + 1)
             /\ value < 0 => value_cm' = 0
             /\ value = 4639 => value_cm' = 199
             /\ value = 1034 => value_cm' = 44
             /\ (captured /\ IC3Value1 = 100 /\ IC3Value2 = 4740)
                    => (value = 4639 /\ value_cm' = 199)
             /\ (captured /\ IC3Value1 = 65000 /\ IC3Value2 = 500)
                    => (value = 1034 /\ value_cm' = 44)]_vars

\* C7 witness: the wraparound scenario was captured, waited for and published
C7_Witness ==
    /\ pc = "delay"
    /\ echoTake = "ok"
    /\ captured
    /\ IC3Value1 = 65000
    /\ IC3Value2 = 500
    /\ value = 1034
    /\ value_cm = 44

\* C8: a cycle in which the handler captured the reference pair publishes
\* the distance published by the first cycle that captured that pair,
\* whatever state the cycles in between have left.
C8_SamePairSameDistance ==
    [][(/\ pc = "publish"
        /\ pc' = "delay"
        /\ captured
        /\ <<IC3Value1, IC3Value2>> = refPair
        /\ refState # "unset")
          => value_cm' = refDist]_vars

\* C8 witness: a second cycle captured the reference pair 65000 -> 500 after
\* a trigger-wait timeout and published the 44 cm of the first one
C8_Witness ==
    /\ pc = "delay"
    /\ refState = "again"
    /\ refPair = <<65000, 500>>
    /\ trigTake = "timeout"
    /\ refDist = 44
    /\ value_cm = 44

\* C9: the reading is stored once per cycle, by the publish step alone (and
\* by the task's initialisation before the first cycle): no other step of a
\* cycle changes what iSonarMeasureDistCm returns.
C9_SingleStorePerCycle ==
    [][value_cm' # value_cm => pc \in {"init", "publish"}]_vars

\* C10: the task reads the width (the publish step of line 272) only in a
\* cycle whose echo wait succeeded.
C10_WidthReadOnlyAfterSuccessfulWait ==
    [][(pc = "publish" /\ pc' = "delay") => echoTake = "ok"]_vars

\* The handler has served source `it`: its flag was pending and enabled, it
\* is cleared, and the task has not moved (the task clears flags only in
\* vSendTriggerPulse and vSetEchoMode, which move it).
Served(it) ==
    /\ it \in SR
    /\ it \in DIER
    /\ it \notin SR'
    /\ pc' = pc
    /\ initPc' = initPc

C12_NoReleaseAfterSecondEdge ==
    [][(/\ Served(TIM_IT_CC3)
        /\ ~(TIM_IT_Update \in SR)
        /\ captured
        /\ pc \in {"take2", "publish", "delay"})
          => xResponseSemphr' = xResponseSemphr]_vars

\* C13: a cycle that follows a failed one and in which both waits succeeded
\* and the handler captured an edge pair publishes the distance of that
\* pair: the wraparound-aware width of (IC3Value1, IC3Value2) times 25,
\* divided by 580 and truncated.
C13_SelfHealing ==
    [][(/\ pc = "publish"
        /\ pc' = "delay"
        /\ prevFailed
        /\ trigTake = "ok"
        /\ echoTake = "ok"
        /\ captured)
          => LET w == IF IC3Value2 > IC3Value1
                      THEN IC3Value2 - IC3Value1 - 1
                      ELSE (65535 - IC3Value1) + IC3Value2 - 1
             IN  IF w < 0 THEN value_cm' = 0
                 ELSE /\ 580 * value_cm' <= 25 * w
                      /\ 25 * w < 580 * (value_cm' + 1)]_vars

\* C13 witness: after a cycle with a timed-out wait, a cycle with no
\* discarded interrupt captured 100 -> 4740 and published 199 cm
C13_Witness ==
    /\ pc = "delay"
    /\ prevFailed
    /\ trigTake = "ok"
    /\ echoTake = "ok"
    /\ captured
    /\ discarded = {}
    /\ IC3Value1 = 100
    /\ IC3Value2 = 4740
    /\ value_cm = 199

\* C14: an update interrupt served while mode = TRIGGER sets mode = ECHO,
\* leaves the semaphore available, and leaves the capture sub-state, both
\* edge values and the width as they were.
C14_PulseCompleteStep ==
    [][(Served(TIM_IT_Update) /\ mode = TRIGGER)
          => /\ mode' = ECHO
             /\ xResponseSemphr' = 1
             /\ UNCHANGED <<capture, IC3Value1, IC3Value2, value>>]_vars

\* C14 witness: in the trigger wait of a cycle that follows a captured pair,
\* the update interrupt was served: mode is ECHO and the permit is there
C14_Witness ==
    /\ pc = "take1"
    /\ mode = ECHO
    /\ xResponseSemphr = 1
    /\ TIM_IT_Update \notin SR
    /\ capture = END
    /\ value = 4639

\* C15: an update interrupt served while mode = ECHO, and a capture/compare
\* interrupt served while mode = TRIGGER, change nothing but the pending
\* flag they clear.
C15_SpuriousDiscarded ==
    [][/\ (Served(TIM_IT_Update) /\ mode = ECHO)
            => /\ SR' = SR \ {TIM_IT_Update}
               /\ UNCHANGED <<mode, capture, IC3Value1, IC3Value2, value,
                              value_cm, xResponseSemphr>>
       /\ (Served(TIM_IT_CC3) /\ ~(TIM_IT_Update \in SR) /\ mode = TRIGGER)
            => /\ SR' = SR \ {TIM_IT_CC3}
               /\ UNCHANGED <<mode, capture, IC3Value1, IC3Value2, value,
                              value_cm, xResponseSemphr>>]_vars

\* C15 witness: both kinds of spurious interrupt were discarded in one
\* cycle, with the semaphore still held
C15_Witness ==
    /\ discarded = {TIM_IT_Update, TIM_IT_CC3}
    /\ xResponseSemphr = 0
    /\ SR = {}

\* C16: a capture interrupt served in echo mode with capture = BEGIN stores
\* the captured counter value in IC3Value1, makes the polarity falling and
\* the sub-state END, and leaves the semaphore, IC3Value2, the width and the
\* counter enable as they were.
C16_FirstEdgeStep ==
    [][/\ (/\ Served(TIM_IT_CC3)
           /\ ~(TIM_IT_Update \in SR)
           /\ mode = ECHO
           /\ capture = BEGIN)
            => /\ IC3Value1' \in Samples
               /\ ICPolarity' = "Falling"
               /\ capture' = END
               /\ CEN' = CEN
               /\ UNCHANGED <<xResponseSemphr, IC3Value2, value, mode>>
       /\ \A c3 \in Samples : IRQ_CaptureBegin(c3) => IC3Value1' = c3]_vars

\* C17: in the capture branch only the second-edge step releases the gate,
\* and the width that step stored stays as it is from the moment the task
\* was woken until the task has read it.
C17_WokenTaskReadsReleasingWidth ==
    [][/\ (/\ Served(TIM_IT_CC3)
           /\ ~(TIM_IT_Update \in SR)
           /\ ~(mode = ECHO /\ capture = END))
            => xResponseSemphr' = xResponseSemphr
       /\ (pc = "publish" /\ echoTake = "ok" /\ captured)
            => UNCHANGED <<value, IC3Value1, IC3Value2>>]_vars

\* C18: mode changes only from TRIGGER to ECHO in the handler and back to
\* TRIGGER in the task's first statement of a cycle; capture changes only
\* from BEGIN to END in the handler and back to BEGIN in the task's capture
\* reset.
C18_HandlerWritesForward ==
    [][/\ mode' # mode =>
            \/ mode = TRIGGER /\ mode' = ECHO /\ Served(TIM_IT_Update)
            \/ /\ mode = ECHO
               /\ mode' = TRIGGER
               /\ pc = "set_trigger"
               /\ pc' = "send_trigger"
       /\ capture' # capture =>
            \/ capture = BEGIN /\ capture' = END /\ Served(TIM_IT_CC3)
            \/ /\ capture = END
               /\ capture' = BEGIN
               /\ pc = "reset_capture"
               /\ pc' = "set_echo"]_vars

\* C18 witness: the task has put back both values the handler had advanced
\* in the cycle before (which captured 100 -> 4740)
C18_Witness ==
    /\ pc = "set_echo"
    /\ mode = TRIGGER
    /\ capture = BEGIN
    /\ trigTake = "timeout"
    /\ IC3Value1 = 100
    /\ value = 4639

\* C19: the task's steps come in the order set mode, arm trigger, first
\* wait, reset capture, arm capture, second wait, publish, delay; the step
\* before the trigger arming writes mode = TRIGGER, the step before the
\* capture arming writes capture = BEGIN, and the capture arming sets the
\* rising polarity.
C19_CycleOrder ==
    [][pc' # pc =>
         /\ <<pc, pc'>> \in {<<"init", "set_trigger">>,
                             <<"set_trigger", "send_trigger">>,
                             <<"send_trigger", "take1">>,
                             <<"take1", "reset_capture">>,
                             <<"reset_capture", "set_echo">>,
                             <<"set_echo", "take2">>,
                             <<"take2", "publish">>,
                             <<"publish", "delay">>,
                             <<"delay", "set_trigger">>}
         /\ pc = "set_trigger" => mode' = TRIGGER
         /\ pc = "send_trigger" =>
                (CEN' /\ DIER' = {TIM_IT_Update, TIM_IT_CC3} /\ SR' = {})
         /\ pc = "reset_capture" => capture' = BEGIN
         /\ pc = "set_echo" => (CEN' /\ ICPolarity' = "Rising" /\ SR' = {})
      ]_vars

\* C19 witness: in a cycle after a failed one, whose own trigger wait timed
\* out, the capture was reset and armed with rising polarity
C19_Witness ==
    /\ pc = "take2"
    /\ prevFailed
    /\ trigTake = "timeout"
    /\ capture = BEGIN
    /\ ICPolarity = "Rising"
    /\ IC3Value1 = 4740

\* C20: when the echo wait succeeds, the handler has run its second-edge
\* step since this cycle's capture reset (the release is never the one of a
\* late update interrupt).
C20_EchoWaitSatisfiedBySecondEdge ==
    [][(pc = "take2" /\ pc' = "publish" /\ echoTake' = "ok")
          => captured]_vars

\* C21: while the task is in the echo phase (the capture configuration is
\* armed and the echo wait has not returned) the mode is ECHO, also when
\* the trigger wait before it timed out.
C21_EchoPhaseInEchoMode ==
    pc = "take2" => mode = ECHO

\* C22: once vSonarInit has returned, and as long as no echo wait has
\* succeeded, iSonarMeasureDistCm returns SONAR_BAD_VALUE.
C22_BadValueUntilFirstMeasurement ==
    (initPc = "done" /\ ~measured) => iSonarMeasureDistCm = SONAR_BAD_VALUE

\* C23: the stored width is always in -1..65534 and the published reading
\* is always -1 or in 0..2824; a publish step that reads the width -1
\* publishes 0.
C23_WidthAndReadingRanges ==
    /\ [](/\ value \in -1..65534
          /\ (iSonarMeasureDistCm = -1 \/ iSonarMeasureDistCm \in 0..2824))
    /\ [][(pc = "publish" /\ pc' = "delay" /\ value = -1)
             => value_cm' = 0]_vars

\* C23 witness: the pair 65535 -> 0 gave the width -1, the echo wait
\* succeeded and the cycle published 0
C23_Witness ==
    /\ pc = "delay"
    /\ echoTake = "ok"
    /\ captured
    /\ IC3Value1 = 65535
    /\ IC3Value2 = 0
    /\ value = -1
    /\ value_cm = 0

====
